---------------------------- MODULE Spec2Model ----------------------------
(***************************************************************************)
(* Model of pr2.py: the dependency analyzer (DependencyAnalyzer), the two  *)
(* renderers (ASCIIVisualizer, GraphvizVisualizer) and the flow of main.   *)
(*                                                                         *)
(* A Python dict is modelled as the sequence of its <<key, value>> items   *)
(* in insertion order, a list as a sequence, a set as a set.               *)
(***************************************************************************)
EXTENDS Integers, Sequences, FiniteSets, TLC

VARIABLES
    recursionlimit,      \* sys.getrecursionlimit() of the interpreter
    test_dependencies,   \* self.test_dependencies
    cyclic_dependencies, \* self.cyclic_dependencies
    pc,                  \* position of the running call
    method,              \* the analyzer method that is running or ran last
    package_name,        \* its package_name argument
    graph,               \* the local graph / reverse_graph it walks
    pending,             \* the items the loop building reverse_graph has to do
    visited,             \* the local visited set
    stack,               \* the active bfs_recursive frames, root first
    queue,               \* the local deque of the breadth-first loops
    acc,                 \* the local all_deps / reverse_deps set
    ret,                 \* the dict a recursive resolution returned
    deps,                \* the elements of the list a flat method returned
    error,               \* <<>> or the CircularDependencyError raised
    log,                 \* what the running call did with each package it
                         \* reached, in order: <<"expand", p>> or <<"skip", p>>
    tree,                \* the last result of generate_tree
    dot,                 \* the last result of generate_dot_graph
    ncalls,              \* analyzer calls made so far
    first,               \* what the first call returned, when a resolution
    main_pc,             \* position of main
    config,              \* the Config main loaded
    failed               \* the resolutions main saw raise

vars == <<recursionlimit, test_dependencies, cyclic_dependencies, pc, method, package_name,
          pending, graph, visited, stack, queue, acc, ret, deps, error, log, tree,
          dot, ncalls, first, main_pc, config, failed>>

---------------------------------------------------------------------------
(* Bounds of the model. *)

\* Largest number of edges (list entries) of a generated graph.
MaxEdges == 3
\* Largest number of analyzer calls in one session.
MaxCalls == 3

\* Package names of the generated graphs.
Pkgs == {"A", "B", "C"}
\* Package names of the generated graphs of the longer runs.
SmallPkgs == {"A", "B"}
\* Smallest recursion limit of the interpreters with a lowered limit.
LowRecursionLimit == 7

---------------------------------------------------------------------------
(* Python containers. *)

RECURSIVE SumSeq(_)
SumSeq(s) == IF s = <<>> THEN 0 ELSE Head(s) + SumSeq(Tail(s))

Range(s) == {s[i] : i \in DOMAIN s}

\* d.keys() as a set, and in order
Keys(d) == {d[i][1] : i \in DOMAIN d}
KeyList(d) == [i \in DOMAIN d |-> d[i][1]]

\* k in d
Has(d, k) == \E i \in DOMAIN d : d[i][1] = k

\* d[k]
Get(d, k) == d[CHOOSE i \in DOMAIN d : d[i][1] = k][2]

\* d[k] = v : a present key keeps its place, a new key goes last
Put(d, k, v) ==
    IF Has(d, k)
    THEN LET i == CHOOSE j \in DOMAIN d : d[j][1] = k
         IN  SubSeq(d, 1, i - 1) \o << <<k, v>> >> \o SubSeq(d, i + 1, Len(d))
    ELSE Append(d, <<k, v>>)

\* d.update(e)
RECURSIVE Update(_, _)
Update(d, e) ==
    IF e = <<>> THEN d ELSE Update(Put(d, Head(e)[1], Head(e)[2]), Tail(e))

\* [x for x in s if x not in drop], in order
RECURSIVE Reject(_, _)
Reject(s, drop) ==
    IF s = <<>> THEN <<>>
    ELSE IF Head(s) \in drop THEN Reject(Tail(s), drop)
    ELSE <<Head(s)>> \o Reject(Tail(s), drop)

\* number of times x occurs in the list s
RECURSIVE Count(_, _)
Count(s, x) ==
    IF s = <<>> THEN 0
    ELSE (IF Head(s) = x THEN 1 ELSE 0) + Count(Tail(s), x)

---------------------------------------------------------------------------
(* The graphs. *)

\* self.test_dependencies as the constructor sets it
TestDependencies ==
    << <<"A", <<"B", "C">> >>, <<"B", <<"D", "E">> >>, <<"C", <<"F", "G">> >>,
       <<"D", <<"H">> >>, <<"E", <<"H", "I">> >>, <<"F", <<>> >>,
       <<"G", <<"I">> >>, <<"H", <<>> >>, <<"I", <<>> >>,
       <<"J", <<"A", "K">> >>, <<"K", <<"B">> >>, <<"L", <<"C", "M">> >>,
       <<"M", <<"H">> >>, <<"N", <<"O", "P">> >>, <<"O", <<"Q">> >>,
       <<"P", <<"Q", "R">> >>, <<"Q", <<>> >>, <<"R", <<>> >> >>

\* self.cyclic_dependencies as the constructor sets it
CyclicDependencies ==
    << <<"X", <<"Y">> >>, <<"Y", <<"Z">> >>, <<"Z", <<"X">> >> >>

\* An acyclic graph in which D is first reached at depth 2, as a dependency
\* of A, and lies at depth 4 on the longer way over B and C.
DetourDependencies ==
    << <<"A", <<"D", "B">> >>, <<"B", <<"C">> >>, <<"C", <<"D">> >>,
       <<"D", <<"E">> >>, <<"E", <<"F">> >> >>

\* Every dict over the names P with distinct keys in any order and at most
\* e list entries in all: key order ks, list lengths l, entries flat.
KeySeqs(P) ==
    UNION {{s \in [1..n -> P] : \A i, j \in 1..n : i # j => s[i] # s[j]}
           : n \in 0..Cardinality(P)}

LenVecs(n, e) == {l \in [1..n -> 0..e] : SumSeq(l) <= e}

Offset(l, i) == SumSeq(SubSeq(l, 1, i - 1))

MkGraph(ks, l, flat) ==
    [i \in 1..Len(ks) |->
        <<ks[i], SubSeq(flat, Offset(l, i) + 1, Offset(l, i) + l[i])>>]

GraphsOver(P, e) ==
    UNION {UNION {{MkGraph(ks, l, flat) : flat \in [1..SumSeq(l) -> P]}
                  : l \in LenVecs(Len(ks), e)}
           : ks \in KeySeqs(P)}

\* graph[pkg] when pkg is a key, no dependencies otherwise
DepsOf(g, pkg) == IF Has(g, pkg) THEN Get(g, pkg) ELSE <<>>

\* The reverse_graph both reverse methods build: for every package and
\* every entry dep of its list, in stored order, package is appended to
\* reverse_graph[dep].
\* AppendEach putting package at the front of reverse_graph[dep].
RECURSIVE AppendEach_AtFront(_, _, _)
AppendEach_AtFront(rg, package, dependencies) ==
    IF dependencies = <<>> THEN rg
    ELSE LET dep == Head(dependencies)
             rg1 == IF Has(rg, dep) THEN rg ELSE Put(rg, dep, <<>>)
         IN  AppendEach_AtFront(Put(rg1, dep, <<package>> \o Get(rg1, dep)),
                                package, Tail(dependencies))

RECURSIVE AppendEach(_, _, _)
AppendEach(rg, package, dependencies) ==
    IF dependencies = <<>> THEN rg
    ELSE LET dep == Head(dependencies)
             rg1 == IF Has(rg, dep) THEN rg ELSE Put(rg, dep, <<>>)
         IN  AppendEach(Put(rg1, dep, Append(Get(rg1, dep), package)),
                        package, Tail(dependencies))

\* the outer loop over the items; the dict of one turn is built before the
\* next turn starts
RECURSIVE ReverseInto(_, _)
ReverseInto(rg, items) ==
    IF items = <<>> THEN rg
    ELSE LET next == AppendEach(rg, Head(items)[1], Head(items)[2])
         IN  IF next = <<>> THEN ReverseInto(<<>>, Tail(items))
             ELSE ReverseInto(next, Tail(items))

reverse_graph(g) == ReverseInto(<<>>, g)

---------------------------------------------------------------------------
(* bfs_recursive / reverse_bfs_recursive: the two functions are the same   *)
(* code, one walking graph and one walking reverse_graph.  A frame holds   *)
(* the package of the call, the index of the next entry of its list and    *)
(* its result dict; the path argument of a call is the packages of the     *)
(* frames below it.                                                        *)

Frame(pkg) == [pkg |-> pkg, i |-> 1, result |-> << <<pkg, <<>> >> >>]

PathOf(stk) == [k \in DOMAIN stk |-> stk[k].pkg]

\* CircularDependencyError(package, path): the exception keeps its message
\* only, "Circular dependency: " and the names of path + [package] joined
\* by " -> "; the joined text is modelled as the sequence of the names.
CircularDependencyError_PathOnly(package, path) ==
    <<"Circular dependency: ", path>>

CircularDependencyError(package, path) ==
    <<"Circular dependency: ", path \o <<package>> >>

\* A call returns sub: to the caller of the method when no frame is left,
\* into result.update(sub_deps) of the calling frame otherwise.
Deliver(sub, vis, stk, lg) ==
    /\ visited' = vis
    /\ log' = lg
    /\ error' = error
    /\ IF stk = <<>>
       THEN /\ pc' = "returned"
            /\ ret' = sub
            /\ stack' = <<>>
       ELSE /\ pc' = "bfs_recursive"
            /\ ret' = ret
            /\ stack' = [stk EXCEPT ![Len(stk)].result = Update(@, sub)]

\* The recursion limit an interpreter starts with.
RecursionLimit == 1000

\* The frames below a method of the analyzer or of a renderer: the module
\* alone when the method is called at module level, the module and main
\* when main calls it.
CallerFrames == IF main_pc.at = "none" THEN 1 ELSE 2

\* The frame a call of bfs_recursive runs in when stk holds the calls that
\* are active below it: the callers, the method, those calls, and itself.
FrameOf(stk) == CallerFrames + 1 + Len(stk) + 1

\* RecursionError, what the interpreter raises at the recursion limit.
RecursionError == <<"maximum recursion depth exceeded">>

\* A resolution ends with the exception err.
Raise(err, vis, lg) ==
    /\ pc' = "raised"
    /\ error' = err
    /\ stack' = <<>>
    /\ visited' = vis
    /\ log' = lg
    /\ ret' = ret

\* bfs_recursive returning {pkg: []} for a visited package.
bfs_recursive_SkipRecords(pkg, vis, stk, lg) ==
    IF stk # <<>> /\ FrameOf(stk) >= recursionlimit
    THEN Raise(RecursionError, vis, lg)
    ELSE IF pkg \in Range(PathOf(stk))
    THEN IF FrameOf(stk) + 2 >= recursionlimit
         THEN Raise(RecursionError, vis, lg)
         ELSE Raise(CircularDependencyError(pkg, PathOf(stk)), vis, lg)
    ELSE IF pkg \in vis
    THEN Deliver(<< <<pkg, <<>> >> >>, vis, stk, Append(lg, <<"skip", pkg>>))
    ELSE /\ pc' = "bfs_recursive"
         /\ visited' = vis \cup {pkg}
         /\ stack' = Append(stk, Frame(pkg))
         /\ log' = Append(lg, <<"expand", pkg>>)
         /\ UNCHANGED <<ret, error>>

\* The entry of a call bfs_recursive(pkg, visited, path), path being the
\* packages of stk: raise when pkg is on the path, return {} when it was
\* visited, and otherwise mark it and start on its list.  The call is one
\* more frame of the interpreter: at the recursion limit the comparison of
\* "pkg in path" raises RecursionError, and within two frames of it the
\* construction of CircularDependencyError (its __init__ and the one it
\* calls) does.
bfs_recursive(pkg, vis, stk, lg) ==
    IF stk # <<>> /\ FrameOf(stk) >= recursionlimit
    THEN Raise(RecursionError, vis, lg)
    ELSE IF pkg \in Range(PathOf(stk))
    THEN IF FrameOf(stk) + 2 >= recursionlimit
         THEN Raise(RecursionError, vis, lg)
         ELSE Raise(CircularDependencyError(pkg, PathOf(stk)), vis, lg)
    ELSE IF pkg \in vis
    THEN Deliver(<<>>, vis, stk, Append(lg, <<"skip", pkg>>))
    ELSE /\ pc' = "bfs_recursive"
         /\ visited' = vis \cup {pkg}
         /\ stack' = Append(stk, Frame(pkg))
         /\ log' = Append(lg, <<"expand", pkg>>)
         /\ UNCHANGED <<ret, error>>

\* One turn of "for dep in graph[pkg]" in the top frame: the entry is
\* appended to result[pkg] and the recursive call is entered.
ForDep ==
    /\ pc = "bfs_recursive"
    /\ stack # <<>>
    /\ LET top == stack[Len(stack)]
           ds == DepsOf(graph, top.pkg)
       IN  /\ top.i <= Len(ds)
           /\ LET dep == ds[top.i]
                  top1 == [top EXCEPT
                             !.i = @ + 1,
                             !.result = Put(@, top.pkg,
                                            Append(Get(@, top.pkg), dep))]
              IN  bfs_recursive(dep, visited,
                                [stack EXCEPT ![Len(stack)] = top1], log)
    /\ UNCHANGED <<recursionlimit, test_dependencies, cyclic_dependencies, method,
                   package_name, graph, pending, queue, acc, deps, tree, dot, ncalls,
                   first, main_pc, config, failed>>

\* The top frame has gone through its list: return result.
Return ==
    /\ pc = "bfs_recursive"
    /\ stack # <<>>
    /\ LET top == stack[Len(stack)]
       IN  /\ top.i > Len(DepsOf(graph, top.pkg))
           /\ Deliver(top.result, visited,
                      SubSeq(stack, 1, Len(stack) - 1), log)
    /\ UNCHANGED <<recursionlimit, test_dependencies, cyclic_dependencies, method,
                   package_name, graph, pending, queue, acc, deps, tree, dot, ncalls,
                   first, main_pc, config, failed>>

---------------------------------------------------------------------------
(* The methods of DependencyAnalyzer.  Each definition below is the entry  *)
(* of a call, up to its first loop turn or recursive call: it binds the    *)
(* locals the code binds there and leaves the others as they are.          *)

\* get_complete_dependencies whose visited set outlives the call.
get_complete_dependencies_SharedVisited(pkg, use_cyclic) ==
    /\ method' = "get_complete_dependencies"
    /\ package_name' = pkg
    /\ graph' = IF use_cyclic THEN cyclic_dependencies ELSE test_dependencies
    /\ bfs_recursive(pkg, visited, <<>>, <<>>)
    /\ UNCHANGED <<recursionlimit, test_dependencies, cyclic_dependencies, pending, queue,
                   acc, deps>>

get_complete_dependencies(pkg, use_cyclic) ==
    /\ method' = "get_complete_dependencies"
    /\ package_name' = pkg
    /\ graph' = IF use_cyclic THEN cyclic_dependencies ELSE test_dependencies
    /\ bfs_recursive(pkg, {}, <<>>, <<>>)
    /\ UNCHANGED <<recursionlimit, test_dependencies, cyclic_dependencies, pending, queue,
                   acc, deps>>

get_all_transitive_deps(pkg) ==
    /\ method' = "get_all_transitive_deps"
    /\ package_name' = pkg
    /\ graph' = test_dependencies
    /\ IF ~Has(test_dependencies, pkg)
       THEN /\ pc' = "returned"
            /\ deps' = {}
            /\ log' = <<>>
            /\ UNCHANGED <<visited, queue, acc>>
       ELSE /\ pc' = "while_queue"
            /\ visited' = {}
            /\ queue' = <<pkg>>
            /\ acc' = {}
            /\ log' = <<>>
            /\ deps' = deps
    /\ UNCHANGED <<recursionlimit, test_dependencies, cyclic_dependencies, pending, stack,
                   ret, error>>

\* reverse_deps = set(), reverse_graph = {}, and the loop over
\* self.test_dependencies.items() is entered
get_reverse_dependencies(pkg) ==
    /\ method' = "get_reverse_dependencies"
    /\ package_name' = pkg
    /\ acc' = {}
    /\ graph' = <<>>
    /\ pending' = test_dependencies
    /\ pc' = "reverse_graph"
    /\ log' = <<>>
    /\ UNCHANGED <<recursionlimit, test_dependencies, cyclic_dependencies, visited, stack,
                   queue, ret, deps, error>>

\* reverse_graph = {}, and the loop over self.test_dependencies.items() is
\* entered
get_all_reverse_dependencies(pkg) ==
    /\ method' = "get_all_reverse_dependencies"
    /\ package_name' = pkg
    /\ graph' = <<>>
    /\ pending' = test_dependencies
    /\ pc' = "reverse_graph"
    /\ log' = <<>>
    /\ UNCHANGED <<recursionlimit, test_dependencies, cyclic_dependencies, visited, stack,
                   queue, acc, ret, deps, error>>

\* One turn of "for package, dependencies in
\* self.test_dependencies.items()" of either method, with its inner loop.
ReverseLoop ==
    /\ pc = "reverse_graph"
    /\ pending # <<>>
    /\ graph' = AppendEach(graph, Head(pending)[1], Head(pending)[2])
    /\ pending' = Tail(pending)
    /\ UNCHANGED <<recursionlimit, test_dependencies, cyclic_dependencies, pc, method,
                   package_name, visited, stack, queue, acc, ret, deps,
                   error, log, tree, dot, ncalls, first, main_pc, config,
                   failed>>

\* get_reverse_dependencies after the loop: "if package_name in
\* reverse_graph", up to the while loop.
ReverseWalk ==
    /\ pc = "reverse_graph"
    /\ pending = <<>>
    /\ method = "get_reverse_dependencies"
    /\ IF Has(graph, package_name)
       THEN /\ pc' = "while_queue"
            /\ visited' = {}
            /\ queue' = <<package_name>>
            /\ deps' = deps
       ELSE /\ pc' = "returned"
            /\ deps' = acc
            /\ UNCHANGED <<visited, queue>>
    /\ UNCHANGED <<recursionlimit, test_dependencies, cyclic_dependencies, method,
                   package_name, pending, graph, stack, acc, ret, error,
                   log, tree, dot, ncalls, first, main_pc, config, failed>>

\* get_all_reverse_dependencies after the loop:
\* reverse_bfs_recursive(package_name).
ReverseResolve ==
    /\ pc = "reverse_graph"
    /\ pending = <<>>
    /\ method = "get_all_reverse_dependencies"
    /\ bfs_recursive(package_name, {}, <<>>, <<>>)
    /\ UNCHANGED <<recursionlimit, test_dependencies, cyclic_dependencies, method,
                   package_name, pending, graph, queue, acc, deps, tree,
                   dot, ncalls, first, main_pc, config, failed>>

\* TransitiveNew without the test "dep not in visited".
TransitiveNew_Unfiltered(current, vis) == DepsOf(test_dependencies, current)

\* The entries of current's list that one turn of the while loop of
\* get_all_transitive_deps adds and enqueues; vis has current in it.
TransitiveNew(current, vis) == Reject(DepsOf(test_dependencies, current), vis)

\* The same for get_reverse_dependencies, on reverse_graph.
ReverseNew(current, vis) ==
    Reject(DepsOf(graph, current), vis \cup {package_name})

\* One turn of "while queue" of get_all_transitive_deps.
WhileTransitive ==
    /\ pc = "while_queue"
    /\ method = "get_all_transitive_deps"
    /\ queue # <<>>
    /\ LET current == Head(queue)
       IN  IF current \in visited
           THEN /\ queue' = Tail(queue)
                /\ log' = Append(log, <<"skip", current>>)
                /\ UNCHANGED <<visited, acc>>
           ELSE LET new == TransitiveNew(current, visited \cup {current})
                IN  /\ visited' = visited \cup {current}
                    /\ acc' = acc \cup Range(new)
                    /\ queue' = Tail(queue) \o new
                    /\ log' = Append(log, <<"expand", current>>)
    /\ UNCHANGED <<recursionlimit, test_dependencies, cyclic_dependencies, pc, method,
                   package_name, graph, pending, stack, ret, deps, error, tree, dot,
                   ncalls, first, main_pc, config, failed>>

\* One turn of "while queue" of get_reverse_dependencies.
WhileReverse ==
    /\ pc = "while_queue"
    /\ method = "get_reverse_dependencies"
    /\ queue # <<>>
    /\ LET current == Head(queue)
       IN  IF current \in visited
           THEN /\ queue' = Tail(queue)
                /\ log' = Append(log, <<"skip", current>>)
                /\ UNCHANGED <<visited, acc>>
           ELSE LET new == ReverseNew(current, visited \cup {current})
                IN  /\ visited' = visited \cup {current}
                    /\ acc' = acc \cup Range(new)
                    /\ queue' = Tail(queue) \o new
                    /\ log' = Append(log, <<"expand", current>>)
    /\ UNCHANGED <<recursionlimit, test_dependencies, cyclic_dependencies, pc, method,
                   package_name, graph, pending, stack, ret, deps, error, tree, dot,
                   ncalls, first, main_pc, config, failed>>

\* The queue is empty: return list(all_deps) / list(reverse_deps), whose
\* elements are those of the set, each once, in no defined order.
WhileExit ==
    /\ pc = "while_queue"
    /\ queue = <<>>
    /\ pc' = "returned"
    /\ deps' = acc
    /\ UNCHANGED <<recursionlimit, test_dependencies, cyclic_dependencies, method,
                   package_name, graph, pending, visited, stack, queue, acc, ret,
                   error, log, tree, dot, ncalls, first, main_pc,
                   config, failed>>

---------------------------------------------------------------------------
(* GraphvizVisualizer.generate_dot_graph.  A line of the text is a string, *)
(* or a tuple of the parts an f-string puts together: <<"root", r, c>> is  *)
(* the line    "r" [fillcolor=c];    and <<"edge", u, v>> is the line      *)
(*     "u" -> "v";                                                         *)

DotHeader(root_package, graph_type) ==
    IF graph_type = "dependencies"
    THEN << "digraph Dependencies {", "    rankdir=TB;",
            "    node [shape=box, style=filled, fillcolor=lightblue];",
            <<"root", root_package, "orange">> >>
    ELSE << "digraph ReverseDependencies {", "    rankdir=BT;",
            "    node [shape=ellipse, style=filled, fillcolor=lightgreen];",
            <<"root", root_package, "yellow">> >>

\* EdgeLine drawing package -> dep whatever the graph_type.
EdgeLine_NoSwap(package, dep, graph_type) == <<"edge", package, dep>>

\* the edge statement of one (package, dep) pair
EdgeLine(package, dep, graph_type) ==
    IF graph_type = "dependencies"
    THEN <<"edge", package, dep>>
    ELSE <<"edge", dep, package>>

RECURSIVE EdgeLines(_, _)
EdgeLines(items, graph_type) ==
    IF items = <<>> THEN <<>>
    ELSE LET package == Head(items)[1]
             dependencies == Head(items)[2]
         IN  [k \in DOMAIN dependencies |->
                 EdgeLine(package, dependencies[k], graph_type)]
             \o EdgeLines(Tail(items), graph_type)

generate_dot_graph(dependency_graph, root_package, graph_type) ==
    DotHeader(root_package, graph_type)
    \o EdgeLines(dependency_graph, graph_type)
    \o << "}" >>

---------------------------------------------------------------------------
(* ASCIIVisualizer.generate_tree.  A line is <<prefix, connector, pkg>>,   *)
(* the prefix being the sequence of its four-character segments; "+-- "    *)
(* and "|-- " stand for the corner and the branch connector, "|   " for    *)
(* the vertical segment.  The code has no recursion guard: build_tree at   *)
(* nesting depth runs in the frame CallerFrames + 1 + depth (the callers,  *)
(* generate_tree, the calls of build_tree).  In a frame at the recursion   *)
(* limit the comparison in the loop over a non-empty list of children      *)
(* raises RecursionError; and so does result.append of line 222, in every  *)
(* call the interpreter runs before it has quickened the code of           *)
(* build_tree, where the method call is one more level of recursion.       *)

\* The interpreter quickens a code object at the WarmupDelay-th tick of its
\* warm-up count, which it ticks at every entry of the code and at every
\* turn of a loop in it.
WarmupDelay == 8

RECURSIVE build_tree(_, _, _, _, _, _)
RECURSIVE build_children(_, _, _, _, _, _)

\* warmup is the number of ticks the code of build_tree had before this
\* call
build_tree(dependency_graph, pkg, prefix, is_last, depth, warmup) ==
    LET connector == IF is_last THEN "+-- " ELSE "|-- "
        line == <<prefix, connector, pkg>>
        children == DepsOf(dependency_graph, pkg)
        new_prefix == Append(prefix, IF is_last THEN "    " ELSE "|   ")
        quickened == warmup + 1 >= WarmupDelay
    IN  IF /\ CallerFrames + 1 + depth >= recursionlimit
           /\ (~quickened \/ children # <<>>)
        THEN [ok |-> FALSE, lines |-> <<>>]
        ELSE LET below == build_children(dependency_graph, children, 1,
                                         new_prefix, depth + 1, warmup + 1)
             IN  [ok |-> below.ok, lines |-> <<line>> \o below.lines]

\* the loop over the children, from the i-th on; the calls of build_tree
\* made for a child are as many as the lines it returns, and all but one
\* of them returned into a loop turn of their own
build_children(dependency_graph, children, i, new_prefix, depth, warmup) ==
    IF i > Len(children) THEN [ok |-> TRUE, lines |-> <<>>]
    ELSE LET one == build_tree(dependency_graph, children[i], new_prefix,
                               i = Len(children), depth, warmup)
         IN  IF ~one.ok THEN one
             ELSE LET rest == build_children(dependency_graph, children,
                                             i + 1, new_prefix, depth,
                                             warmup + 2 * Len(one.lines))
                  IN  [ok |-> rest.ok, lines |-> one.lines \o rest.lines]

\* warmup is the number of ticks the code of build_tree had before the
\* call: 0 in an interpreter that has not rendered a tree yet
generate_tree(dependency_graph, root, warmup) ==
    IF ~Has(dependency_graph, root)
    THEN [status |-> "ok", lines |-> << <<root>> >>]
    ELSE LET t == build_tree(dependency_graph, root, <<>>, TRUE, 1, warmup)
         IN  IF t.ok THEN [status |-> "ok", lines |-> t.lines]
             ELSE [status |-> "RecursionError", lines |-> <<>>]

---------------------------------------------------------------------------
(* A caller of the analyzer and of the renderers.                          *)

NoText == [status |-> "none", lines |-> <<>>, of |-> <<>>, from |-> <<>>]

\* Package names a caller asks for: the generated ones and two keys of
\* the built-in graph, where that is the graph.
Roots(g) == Pkgs \cup (Keys(g) \cap {"H", "J"})

Resolutions == {"get_complete_dependencies", "get_all_reverse_dependencies"}

\* what the running or last call was asked: method, package and the graph
\* it walks
Asked == <<method, package_name, graph>>

CallerIdle ==
    /\ pc = "idle"
    /\ ncalls' = ncalls + 1
    /\ UNCHANGED <<tree, dot, first, main_pc, config, failed>>

CallComplete ==
    /\ CallerIdle
    /\ \E pkg \in Roots(test_dependencies) : get_complete_dependencies(pkg, FALSE)

CallCompleteCyclic ==
    /\ CallerIdle
    /\ \E pkg \in Keys(cyclic_dependencies) :
          get_complete_dependencies(pkg, TRUE)

CallAllReverse ==
    /\ CallerIdle
    /\ \E pkg \in Roots(test_dependencies) : get_all_reverse_dependencies(pkg)

CallTransitive ==
    /\ CallerIdle
    /\ \E pkg \in Roots(test_dependencies) : get_all_transitive_deps(pkg)

CallReverse ==
    /\ CallerIdle
    /\ \E pkg \in Roots(test_dependencies) : get_reverse_dependencies(pkg)

\* The caller renders the closure a resolution returned, in an interpreter
\* that has not rendered a tree yet or in one that has quickened the code
\* of build_tree in earlier calls.
RenderTree ==
    /\ pc = "returned"
    /\ method \in Resolutions
    /\ main_pc.at = "none"
    /\ tree.status = "none"
    /\ \E warmup \in {0, WarmupDelay} :
          tree' = generate_tree(ret, package_name, warmup)
                    @@ [of |-> Asked, from |-> ret]
    /\ UNCHANGED <<recursionlimit, test_dependencies, cyclic_dependencies, pc, method,
                   package_name, graph, pending, visited, stack, queue, acc, ret,
                   deps, error, log, dot, ncalls, first, main_pc,
                   config, failed>>

RenderDot ==
    /\ pc = "returned"
    /\ method \in Resolutions
    /\ main_pc.at = "none"
    /\ dot.status = "none"
    /\ \E graph_type \in {"dependencies", "reverse"} :
          dot' = [status |-> "ok",
                  lines |-> generate_dot_graph(ret, package_name, graph_type),
                  of |-> Asked, from |-> ret]
    /\ UNCHANGED <<recursionlimit, test_dependencies, cyclic_dependencies, pc, method,
                   package_name, graph, pending, visited, stack, queue, acc, ret,
                   deps, error, log, tree, ncalls, first, main_pc,
                   config, failed>>

\* The caller is done with the results and goes on to its next call.  The
\* first call of a session is remembered when it was a resolution that
\* returned: <<what was asked, the dict, whether a later call raised>>.
NextCall ==
    /\ pc \in {"returned", "raised"}
    /\ main_pc.at = "none"
    /\ ncalls < MaxCalls
    /\ pc' = "idle"
    /\ first' = IF ncalls = 1 /\ pc = "returned" /\ method \in Resolutions
                THEN <<Asked, ret, FALSE>>
                ELSE IF first # <<>> /\ pc = "raised"
                THEN <<first[1], first[2], TRUE>>
                ELSE first
    /\ ret' = <<>>
    /\ error' = <<>>
    /\ deps' = {}
    /\ tree' = NoText
    /\ dot' = NoText
    /\ UNCHANGED <<recursionlimit, test_dependencies, cyclic_dependencies, method,
                   package_name, graph, pending, visited, stack, queue, acc, log,
                   ncalls, main_pc, config, failed>>

NoConfig == [package_name |-> "", reverse_dependencies_mode |-> FALSE,
             ascii_tree_output |-> FALSE, graphviz_output |-> FALSE]

\* The state after DependencyAnalyzer(): the two graphs set, nothing called.
Constructed(G) ==
    /\ test_dependencies \in G
    /\ cyclic_dependencies = CyclicDependencies
    /\ pc = "idle"
    /\ method = "none"
    /\ package_name = ""
    /\ graph = <<>>
    /\ pending = <<>>
    /\ visited = {}
    /\ stack = <<>>
    /\ queue = <<>>
    /\ acc = {}
    /\ ret = <<>>
    /\ deps = {}
    /\ error = <<>>
    /\ log = <<>>
    /\ tree = NoText
    /\ dot = NoText
    /\ ncalls = 0
    /\ first = <<>>
    /\ failed = {}

Init ==
    /\ Constructed(GraphsOver(Pkgs, MaxEdges) \cup {TestDependencies})
    /\ recursionlimit = RecursionLimit
    /\ main_pc = [at |-> "none", i |-> 0]
    /\ config = NoConfig

Step ==
    \/ ReverseLoop
    \/ ReverseWalk
    \/ ReverseResolve
    \/ ForDep
    \/ Return
    \/ WhileTransitive
    \/ WhileReverse
    \/ WhileExit

Next ==
    \/ CallComplete
    \/ CallCompleteCyclic
    \/ CallAllReverse
    \/ CallTransitive
    \/ CallReverse
    \/ Step
    \/ RenderTree
    \/ RenderDot

\* one call on a new analyzer, and the rendering of what it returned
Spec == Init /\ [][Next]_vars

\* a session of up to MaxCalls calls on one analyzer
InitCalls ==
    /\ Constructed(GraphsOver(SmallPkgs, MaxEdges) \cup {TestDependencies})
    /\ recursionlimit = RecursionLimit
    /\ main_pc = [at |-> "none", i |-> 0]
    /\ config = NoConfig

NextCalls == Next \/ NextCall

SpecCalls == InitCalls /\ [][NextCalls]_vars

\* one call and its rendering in an interpreter whose recursion limit was
\* lowered with sys.setrecursionlimit, so that the built-in graphs and
\* DetourDependencies are as deep for it as graphs of a thousand packages
\* are for an interpreter with the limit it starts with
InitLimit ==
    /\ Constructed({TestDependencies, DetourDependencies})
    /\ recursionlimit \in LowRecursionLimit .. LowRecursionLimit + 2
    /\ main_pc = [at |-> "none", i |-> 0]
    /\ config = NoConfig

SpecLimit == InitLimit /\ [][Next]_vars

---------------------------------------------------------------------------
(* main, from the construction of the analyzer on.  main_pc.at is the      *)
(* statement main is at, or the variable whose value it is waiting for;    *)
(* main_pc.i is the index of the demo loop.                                *)

demo_packages == <<"A", "H", "N">>

At(where) == [main_pc EXCEPT !.at = where]

Rendered(text, asked, closure) == text @@ [of |-> asked, from |-> closure]

\* analyzer.get_complete_dependencies(config.package_name)
MainComplete ==
    /\ main_pc.at = "start"
    /\ ~config.reverse_dependencies_mode
    /\ get_complete_dependencies(config.package_name, FALSE)
    /\ main_pc' = At("complete_graph")
    /\ ncalls' = ncalls + 1
    /\ UNCHANGED <<tree, dot, first, config, failed>>

\* analyzer.get_all_transitive_deps(config.package_name)
MainTransitive ==
    /\ main_pc.at = "complete_graph"
    /\ pc = "returned"
    /\ get_all_transitive_deps(config.package_name)
    /\ main_pc' = At("transitive_deps")
    /\ ncalls' = ncalls + 1
    /\ UNCHANGED <<tree, dot, first, config, failed>>

\* analyzer.get_reverse_dependencies(config.package_name)
MainReverse ==
    /\ main_pc.at = "start"
    /\ config.reverse_dependencies_mode
    /\ get_reverse_dependencies(config.package_name)
    /\ main_pc' = At("reverse_deps")
    /\ ncalls' = ncalls + 1
    /\ UNCHANGED <<tree, dot, first, config, failed>>

\* analyzer.get_all_reverse_dependencies(config.package_name)
MainAllReverse ==
    /\ main_pc.at = "reverse_deps"
    /\ pc = "returned"
    /\ get_all_reverse_dependencies(config.package_name)
    /\ main_pc' = At("reverse_graph")
    /\ ncalls' = ncalls + 1
    /\ UNCHANGED <<tree, dot, first, config, failed>>

\* what the resolution of the requested package was asked; the graph it
\* walked is the one the last call of main walked too
Primary ==
    <<IF config.reverse_dependencies_mode
      THEN "get_all_reverse_dependencies" ELSE "get_complete_dependencies",
      config.package_name, graph>>

\* "if config.ascii_tree_output": the tree of the dict the resolution of
\* the requested package returned, the first tree the program renders; a
\* RecursionError of generate_tree is caught by "except Exception", which
\* ends the program
MainTree ==
    /\ \/ main_pc.at = "transitive_deps"
       \/ main_pc.at = "reverse_graph"
    /\ pc = "returned"
    /\ tree' = IF config.ascii_tree_output
               THEN Rendered(generate_tree(ret, config.package_name, 0),
                             Primary, ret)
               ELSE tree
    /\ main_pc' = IF tree'.status = "RecursionError"
                  THEN At("exit") ELSE At("tree")
    /\ UNCHANGED <<recursionlimit, test_dependencies, cyclic_dependencies, pc, method,
                   package_name, graph, pending, visited, stack, queue, acc, ret,
                   deps, error, log, dot, ncalls, first, config, failed>>

\* "if config.graphviz_output": the DOT text of the same dict
MainDot ==
    /\ main_pc.at = "tree"
    /\ dot' = IF config.graphviz_output
              THEN Rendered(
                     [status |-> "ok",
                      lines |-> generate_dot_graph(
                                  ret, config.package_name,
                                  IF config.reverse_dependencies_mode
                                  THEN "reverse" ELSE "dependencies")],
                     Primary, ret)
              ELSE dot
    /\ main_pc' = At("cyclic_test")
    /\ UNCHANGED <<recursionlimit, test_dependencies, cyclic_dependencies, pc, method,
                   package_name, graph, pending, visited, stack, queue, acc, ret,
                   deps, error, log, tree, ncalls, first, config, failed>>

\* where main goes after a resolution raised: on to where when
\* "except CircularDependencyError" caught it, and to sys.exit(1) of
\* "except Exception" when it was a RecursionError
Caught(where) == IF error = RecursionError THEN At("exit") ELSE where

\* "except CircularDependencyError" of the resolution of the requested
\* package: the error is printed and main goes on
MainExcept ==
    /\ \/ main_pc.at = "complete_graph"
       \/ main_pc.at = "reverse_graph"
    /\ pc = "raised"
    /\ failed' = failed \cup {Asked}
    /\ main_pc' = Caught(At("cyclic_test"))
    /\ UNCHANGED <<recursionlimit, test_dependencies, cyclic_dependencies, pc, method,
                   package_name, graph, pending, visited, stack, queue, acc, ret,
                   deps, error, log, tree, dot, ncalls, first, config>>

\* analyzer.get_complete_dependencies("X", use_cyclic=True)
MainCyclicTest ==
    /\ main_pc.at = "cyclic_test"
    /\ get_complete_dependencies("X", TRUE)
    /\ main_pc' = At("cyclic_result")
    /\ ncalls' = ncalls + 1
    /\ UNCHANGED <<tree, dot, first, config, failed>>

\* either outcome of the test is printed; the demo loop starts
MainCyclicDone ==
    /\ main_pc.at = "cyclic_result"
    /\ pc \in {"returned", "raised"}
    /\ failed' = IF pc = "raised" THEN failed \cup {Asked} ELSE failed
    /\ main_pc' = IF pc = "raised"
                  THEN Caught([at |-> "demo", i |-> 1])
                  ELSE [at |-> "demo", i |-> 1]
    /\ UNCHANGED <<recursionlimit, test_dependencies, cyclic_dependencies, pc, method,
                   package_name, graph, pending, visited, stack, queue, acc, ret,
                   deps, error, log, tree, dot, ncalls, first, config>>

\* "for pkg in demo_packages: if pkg != config.package_name":
\* analyzer.get_complete_dependencies(pkg)
MainDemo ==
    /\ main_pc.at = "demo"
    /\ main_pc.i <= Len(demo_packages)
    /\ IF demo_packages[main_pc.i] # config.package_name
       THEN /\ get_complete_dependencies(demo_packages[main_pc.i], FALSE)
            /\ main_pc' = At("demo_graph")
            /\ ncalls' = ncalls + 1
            /\ UNCHANGED <<tree, dot, first, config, failed>>
       ELSE /\ main_pc' = [main_pc EXCEPT !.i = @ + 1]
            /\ UNCHANGED <<recursionlimit, test_dependencies, cyclic_dependencies, pc,
                           method, package_name, graph, pending, visited, stack,
                           queue, acc, ret, deps, error, log, tree, dot,
                           ncalls, first, config, failed>>

\* the DOT text of the dict the demo resolution returned
MainDemoDot ==
    /\ main_pc.at = "demo_graph"
    /\ pc = "returned"
    /\ dot' = Rendered(
                [status |-> "ok",
                 lines |-> generate_dot_graph(ret, demo_packages[main_pc.i],
                                              "dependencies")],
                Asked, ret)
    /\ main_pc' = [at |-> "demo", i |-> main_pc.i + 1]
    /\ UNCHANGED <<recursionlimit, test_dependencies, cyclic_dependencies, pc, method,
                   package_name, graph, pending, visited, stack, queue, acc, ret,
                   deps, error, log, tree, ncalls, first, config, failed>>

\* "except CircularDependencyError: pass" of the demo loop
MainDemoExcept ==
    /\ main_pc.at = "demo_graph"
    /\ pc = "raised"
    /\ failed' = failed \cup {Asked}
    /\ main_pc' = Caught([at |-> "demo", i |-> main_pc.i + 1])
    /\ UNCHANGED <<recursionlimit, test_dependencies, cyclic_dependencies, pc, method,
                   package_name, graph, pending, visited, stack, queue, acc, ret,
                   deps, error, log, tree, dot, ncalls, first, config>>

\* the demo loop is over
MainEnd ==
    /\ main_pc.at = "demo"
    /\ main_pc.i > Len(demo_packages)
    /\ main_pc' = At("end")
    /\ UNCHANGED <<recursionlimit, test_dependencies, cyclic_dependencies, pc, method,
                   package_name, graph, pending, visited, stack, queue, acc, ret,
                   deps, error, log, tree, dot, ncalls, first, config,
                   failed>>

\* main after Config(args.config) and DependencyAnalyzer(...)
InitMain ==
    /\ Constructed(GraphsOver(SmallPkgs, MaxEdges) \cup {TestDependencies})
    /\ recursionlimit = RecursionLimit
    /\ main_pc = [at |-> "start", i |-> 1]
    /\ config \in [package_name : Roots(test_dependencies),
                   reverse_dependencies_mode : BOOLEAN,
                   ascii_tree_output : BOOLEAN,
                   graphviz_output : BOOLEAN]

NextMain ==
    \/ MainComplete
    \/ MainTransitive
    \/ MainReverse
    \/ MainAllReverse
    \/ MainTree
    \/ MainDot
    \/ MainExcept
    \/ MainCyclicTest
    \/ MainCyclicDone
    \/ MainDemo
    \/ MainDemoDot
    \/ MainDemoExcept
    \/ MainEnd
    \/ Step

SpecMain == InitMain /\ [][NextMain]_vars

---------------------------------------------------------------------------
(* Graph notions the properties are stated with.                           *)

\* the packages named in g
Nodes(g) == Keys(g) \cup UNION {Range(g[i][2]) : i \in DOMAIN g}

\* the direct dependencies of p in g, as a set
Succ(g, p) == Range(DepsOf(g, p))

\* seen, closed under Succ
RECURSIVE Closure(_, _)
Closure(g, seen) ==
    LET more == UNION {Succ(g, p) : p \in seen}
    IN  IF more \subseteq seen THEN seen ELSE Closure(g, seen \cup more)

\* the packages reachable from p by zero or more, and by one or more edges
Reach(g, p) == Closure(g, {p})
ReachPlus(g, p) == Closure(g, Succ(g, p))

OnCycle(g, p) == p \in ReachPlus(g, p)
Acyclic(g) == \A p \in Nodes(g) : ~OnCycle(g, p)
CycleReachable(g, root) == \E p \in Reach(g, root) : OnCycle(g, p)

NoDuplicates(s) == \A i, j \in DOMAIN s : i # j => s[i] # s[j]

\* the (key, list entry) pairs of a dict of lists, keys in stored order and
\* each list in its order
RECURSIVE Pairs(_)
Pairs(d) ==
    IF d = <<>> THEN <<>>
    ELSE [k \in DOMAIN Head(d)[2] |-> <<Head(d)[1], Head(d)[2][k]>>]
         \o Pairs(Tail(d))

\* the first components of the pairs whose second component is x, in order
RECURSIVE FirstsOf(_, _)
FirstsOf(pairs, x) ==
    IF pairs = <<>> THEN <<>>
    ELSE IF Head(pairs)[2] = x
    THEN <<Head(pairs)[1]>> \o FirstsOf(Tail(pairs), x)
    ELSE FirstsOf(Tail(pairs), x)

\* the edge statements of a generated text, and the graph_type it shows
DotEdges(d) == SubSeq(d.lines, 5, Len(d.lines) - 1)
DotType(d) == IF d.lines[1] = "digraph Dependencies {"
              THEN "dependencies" ELSE "reverse"

\* The first back-reference of the plain depth-first search of g, the one
\* that keeps no visited set: <<package, path>>, or <<>> when it meets none.
RECURSIVE FirstBackReference(_, _, _)
RECURSIVE FirstBackReferenceIn(_, _, _, _)
FirstBackReference(g, pkg, path) ==
    IF pkg \in Range(path) THEN <<pkg, path>>
    ELSE FirstBackReferenceIn(g, DepsOf(g, pkg), 1, Append(path, pkg))

FirstBackReferenceIn(g, ds, i, path) ==
    IF i > Len(ds) THEN <<>>
    ELSE LET found == FirstBackReference(g, ds[i], path)
         IN  IF found # <<>> THEN found
             ELSE FirstBackReferenceIn(g, ds, i + 1, path)

\* the packages the call expanded, in order, and those it met again
Logged(kind) == LET RECURSIVE Pick(_)
                    Pick(l) == IF l = <<>> THEN <<>>
                               ELSE IF Head(l)[1] = kind
                               THEN <<Head(l)[2]>> \o Pick(Tail(l))
                               ELSE Pick(Tail(l))
                IN  Pick(log)

\* a resolution returned; a resolution raised CircularDependencyError
Resolved == method \in Resolutions /\ pc = "returned"
Raised ==
    /\ method \in Resolutions
    /\ pc = "raised"
    /\ error[1] = "Circular dependency: "

\* the chain of packages the message of the raised error shows, the
\* repeated package that ends it and the path before it
ErrorChain == error[2]
ErrorPackage == ErrorChain[Len(ErrorChain)]
ErrorPath == SubSeq(ErrorChain, 1, Len(ErrorChain) - 1)

---------------------------------------------------------------------------
(* The claims.                                                             *)

\* C1: on an acyclic graph and a root that is a key of it,
\* get_complete_dependencies does not raise, is never stuck, enters
\* bfs_recursive at most once per edge and once for the root, and returns a
\* dict whose keys are the root and every package reachable from it, each
\* once, the list of each key being its list in the graph (empty for a
\* package that is no key).
C1_ClosureOfAcyclic ==
    (/\ method = "get_complete_dependencies"
     /\ Acyclic(graph)
     /\ Has(graph, package_name))
    => /\ pc \in {"bfs_recursive", "returned"}
       /\ error = <<>>
       /\ pc = "bfs_recursive" => stack # <<>>
       /\ Len(log) <= 1 + Len(Pairs(graph))
       /\ pc = "returned" =>
             /\ Keys(ret) = Reach(graph, package_name)
             /\ NoDuplicates(KeyList(ret))
             /\ \A k \in Keys(ret) : Get(ret, k) = DepsOf(graph, k)

\* C2: a resolution (forward, or on the reverse graph) raises exactly when
\* a cycle is reachable from the root, and then returns no dict; what it
\* raises is a CircularDependencyError, and the error is the first
\* back-reference that the plain depth-first search without a
\* visited set meets: its path starts at the root, follows edges of the
\* graph, is an active chain (no package twice), and its last package
\* depends on the repeated package, which is on the path.
C2_RaisesExactlyOnCycle ==
    method \in Resolutions =>
       /\ pc = "bfs_recursive" => stack # <<>>
       /\ pc = "returned" =>
             /\ ~CycleReachable(graph, package_name)
             /\ error = <<>>
       /\ pc = "raised" =>
             /\ CycleReachable(graph, package_name)
             /\ ret = <<>>
             /\ error[1] = "Circular dependency: "
             /\ Len(ErrorChain) >= 2
             /\ <<ErrorPackage, ErrorPath>>
                  = FirstBackReference(graph, package_name, <<>>)
             /\ ErrorPath[1] = package_name
             /\ NoDuplicates(ErrorPath)
             /\ \A i \in 1..(Len(ErrorPath) - 1) :
                   ErrorPath[i + 1] \in Succ(graph, ErrorPath[i])
             /\ ErrorPackage \in Succ(graph, ErrorPath[Len(ErrorPath)])
             /\ ErrorPackage \in Range(ErrorPath)

\* C3 as claimed: the first and the last package of the chain of the
\* message are the same package.
C3_ChainClosesOnFirst ==
    Raised => ErrorChain[1] = ErrorChain[Len(ErrorChain)]

\* C3 as amended: the chain of the message is the ancestor chain from the
\* root followed by the repeated package: it starts with the root, ends
\* with the repeated package, and that package occurs exactly once before
\* the end; first and last are the same package exactly when the repeated
\* package is the root.
C3_ChainClosesOnRepeated ==
    Raised =>
       /\ Len(ErrorChain) >= 2
       /\ ErrorChain[1] = package_name
       /\ Cardinality({j \in 1..(Len(ErrorChain) - 1) :
                          ErrorChain[j] = ErrorChain[Len(ErrorChain)]}) = 1
       /\ NoDuplicates(ErrorPath)
       /\ (ErrorChain[1] = ErrorChain[Len(ErrorChain)])
             <=> (ErrorPackage = package_name)

\* the root leads into a cycle that the root is not on
C3_Witness ==
    /\ Raised
    /\ ErrorPackage # package_name
    /\ ~OnCycle(graph, package_name)

\* C9 as claimed: a package met again off the active path has an empty
\* list in the returned dict.
C9_SharedHasEmptyList ==
    Resolved =>
       \A p \in Range(Logged("skip")) : Has(ret, p) /\ Get(ret, p) = <<>>

\* C9 as amended: a package met again off the active path is not expanded
\* again and the call for it adds nothing to the dict: the package stays in
\* the returned dict once, with the list the graph gives it.
C9_SharedKeepsItsList ==
    Resolved =>
       \A p \in Range(Logged("skip")) :
          /\ Count(Logged("expand"), p) = 1
          /\ Count(KeyList(ret), p) = 1
          /\ Get(ret, p) = DepsOf(graph, p)

\* a package with a list of its own was met again
C9_Witness ==
    /\ Resolved
    /\ \E p \in Range(Logged("skip")) : DepsOf(graph, p) # <<>>

\* C4: get_all_transitive_deps never raises, takes at most one loop turn
\* per edge and one for the root, expands no package twice, and returns
\* the packages reachable from the root by one or more edges less the root
\* itself; nothing when the root is no key.
C4_TransitiveSet ==
    method = "get_all_transitive_deps" =>
       /\ pc \in {"while_queue", "returned"}
       /\ error = <<>>
       /\ NoDuplicates(Logged("expand"))
       /\ Len(log) <= 1 + Len(Pairs(test_dependencies))
       /\ pc = "returned" =>
             deps = IF Has(test_dependencies, package_name)
                    THEN ReachPlus(test_dependencies, package_name)
                           \ {package_name}
                    ELSE {}

\* a root on a cycle, with a list that names a package twice, done
C4_Witness ==
    /\ method = "get_all_transitive_deps"
    /\ pc = "returned"
    /\ OnCycle(test_dependencies, package_name)
    /\ ~NoDuplicates(DepsOf(test_dependencies, package_name))
    /\ deps # {}

\* C5: get_reverse_dependencies returns exactly the packages that name the
\* root in their own list, less the root.
C5_OneHopOnly ==
    (method = "get_reverse_dependencies" /\ pc = "returned") =>
       deps = {p \in Keys(test_dependencies) :
                  package_name \in Succ(test_dependencies, p)}
                \ {package_name}

\* C6 as claimed: in a reverse text made from the dict
\* get_all_reverse_dependencies returned, "u" -> "v" has v depend on u.
C6_ReverseEdgeToDependent ==
    (/\ dot.status = "ok"
     /\ dot.of[1] = "get_all_reverse_dependencies"
     /\ DotType(dot) = "reverse")
    => \A i \in DOMAIN DotEdges(dot) :
          DotEdges(dot)[i][2] \in Succ(test_dependencies, DotEdges(dot)[i][3])

\* C6 as amended: the text has one edge statement per (key, list entry)
\* pair of the dict, in the order of the dict and of its lists, nothing
\* merged; a forward text of a forward resolution draws each package to its
\* direct dependency, and a reverse text of a reverse resolution draws each
\* dependent to the package it directly depends on: the arrow "u" -> "v"
\* has u depend on v there too.
C6_EdgeToDependency ==
    dot.status = "ok" =>
       LET edges == DotEdges(dot)
           pairs == Pairs(dot.from)
       IN  /\ Len(edges) = Len(pairs)
           /\ \A i \in DOMAIN edges :
                 edges[i] = IF DotType(dot) = "dependencies"
                            THEN <<"edge", pairs[i][1], pairs[i][2]>>
                            ELSE <<"edge", pairs[i][2], pairs[i][1]>>
           /\ (/\ dot.of[1] = "get_complete_dependencies"
               /\ DotType(dot) = "dependencies")
              => \A i \in DOMAIN edges :
                    edges[i][3] \in Succ(dot.of[3], edges[i][2])
           /\ (/\ dot.of[1] = "get_all_reverse_dependencies"
               /\ DotType(dot) = "reverse")
              => \A i \in DOMAIN edges :
                    edges[i][3] \in Succ(test_dependencies, edges[i][2])

\* a reverse text of a reverse resolution with the same edge drawn twice
C6_Witness ==
    /\ dot.status = "ok"
    /\ dot.of[1] = "get_all_reverse_dependencies"
    /\ DotType(dot) = "reverse"
    /\ ~NoDuplicates(DotEdges(dot))

\* C7: in the reverse_graph built from test_dependencies, p occurs in the
\* list of d as often as d occurs in the list of p; the list of d is the
\* packages of the edges to d in the order the edges are met going through
\* the keys and lists in stored order; no key has an empty list; reversing
\* the reverse graph again gives the edges of test_dependencies as a set;
\* and an empty graph gives an empty reverse graph.
C7_ReverseIndex ==
    (/\ method \in {"get_reverse_dependencies",
                    "get_all_reverse_dependencies"}
     /\ pending = <<>>)
    => /\ \A p \in Nodes(test_dependencies) :
             \A d \in Nodes(test_dependencies) :
                Count(DepsOf(graph, d), p)
                  = Count(DepsOf(test_dependencies, p), d)
       /\ Keys(graph) \subseteq Nodes(test_dependencies)
       /\ NoDuplicates(KeyList(graph))
       /\ \A d \in Keys(graph) :
             /\ Get(graph, d) # <<>>
             /\ Get(graph, d) = FirstsOf(Pairs(test_dependencies), d)
       /\ Range(Pairs(reverse_graph(graph)))
            = Range(Pairs(test_dependencies))
       /\ test_dependencies = <<>> => graph = <<>>

\* a reverse graph with a list of two different packages, whose reversal
\* is not the graph it was built from
C7_Witness ==
    /\ method \in {"get_reverse_dependencies", "get_all_reverse_dependencies"}
    /\ pending = <<>>
    /\ \E d \in Keys(graph) : Cardinality(Range(Get(graph, d))) >= 2
    /\ reverse_graph(graph) # test_dependencies

\* the running or last call asks what the first call of the session asked
AskedAgain ==
    /\ first # <<>>
    /\ first[1][1] = method
    /\ first[1][2] = package_name
    /\ (first[1][3] = cyclic_dependencies) = (graph = cyclic_dependencies)

C8_FreshEachCall ==
    /\ (Resolved /\ AskedAgain) => ret = first[2]
    /\ pc \in {"bfs_recursive", "while_queue"} =>
          visited = Range(Logged("expand"))
    /\ pc = "bfs_recursive" =>
          /\ stack # <<>>
          /\ stack[1].pkg = package_name
          /\ Range(PathOf(stack)) \subseteq visited

\* C8: whatever calls came before, those that raised included, a resolution
\* that asks what the first call of the session asked returns the same
\* dict, keys and lists in the same order; a running call has visited what
\* it expanded itself and nothing else, and its path starts at its own
\* root; and no step changes test_dependencies or cyclic_dependencies.
C8_NoStateAcrossCalls ==
    /\ []C8_FreshEachCall
    /\ [][/\ test_dependencies' = test_dependencies
          /\ cyclic_dependencies' = cyclic_dependencies]_vars

\* the first resolution returned a dict of several keys, a later call
\* raised, and the same resolution has returned again
C8_Witness ==
    /\ Resolved
    /\ AskedAgain
    /\ first[3]
    /\ Len(ret) >= 2
    /\ ncalls >= 3

\* the resolution of the requested package raised
PrimaryFailed ==
    \E f \in failed :
       /\ f[2] = config.package_name
       /\ f[1] = IF config.reverse_dependencies_mode
                 THEN "get_all_reverse_dependencies"
                 ELSE "get_complete_dependencies"
       /\ f[3] # cyclic_dependencies

\* C10: a dict that a resolution returned has no cycle; generate_tree has
\* only run on such a dict, for a resolution that did not raise, and ended
\* with a tree, not in RecursionError; generate_dot_graph has only run on
\* such a dict too; and in main, once the resolution of the requested
\* package has raised, no tree and no text of that package exist.
C10_RendererGetsAcyclic ==
    /\ Resolved => Acyclic(ret)
    /\ tree.status # "none" =>
          /\ tree.status = "ok"
          /\ tree.lines # <<>>
          /\ Acyclic(tree.from)
          /\ tree.of \notin failed
    /\ dot.status # "none" =>
          /\ Acyclic(dot.from)
          /\ dot.of \notin failed
    /\ PrimaryFailed =>
          /\ tree.status = "none"
          /\ dot.status # "none" => dot.of[2] # config.package_name

=============================================================================
